---- MODULE Spec2Model ----
(***************************************************************************)
(* Finite-field arithmetic (src/src/finite_field.rs) and the elliptic      *)
(* curve point addition built on it (src/src/ec_generic.rs, generic over   *)
(* the coordinate type; src/src/ec.rs, the const-generic i32 variant),     *)
(* and the lazy statics of src/src/secp256k1.rs under threads.             *)
(*                                                                         *)
(* Every value that a Rust expression can produce is a record, so that a   *)
(* panic (assert!, BigUint underflow, integer division by zero) is a value *)
(* of its own, Panic, that every operation propagates.                     *)
(*   field element / i32 number : [num |-> n]                              *)
(*   curve                      : [id, kind, m, a, b]                      *)
(*   ECPoint                    : [curve |-> c, p |-> PointType]           *)
(*   PointType                  : [tag |-> "Invalid"], [tag |-> "Infinity"]*)
(*                                [tag |-> "Point", x |-> _, y |-> _]      *)
(*   EPoint (ec.rs)             : [p |-> None] or [p |-> Some(x, y)]       *)
(***************************************************************************)
EXTENDS Integers, Sequences, FiniteSets, TLC

VARIABLES
    mode,      \* which part of the library the run drives: "field", "generic",
               \* "const" or "secp256k1"
    modulus,   \* F::modulus() of the field under test (field runs)
    fself,     \* left operand of the field operators
    fother,    \* right operand of the field operators
    exponent,  \* argument of the exp call in progress, or just returned; else 0
    pc,        \* position inside FiniteField::exp: "idle" or "loop"
    base,      \* local `base` of exp
    exp,       \* local `exp` of exp
    result,    \* local `result` of exp
    iters,     \* loop iterations of the exp call in progress, or just returned; else 0
    curve,     \* the curve the points are built on (curve runs)
    P,         \* point operand `self`
    Q,         \* point operand `rhs` / `other`
    fed,       \* i32 runs: sums fed back into P since a constructor last built P
    op,        \* name of the last operation executed
    args,      \* the scalar arguments of the last operation
    out,       \* value returned by the last operation
    once,      \* per lazy static: state of its Once
    cell,      \* per lazy static: the value its Lazy cell holds
    runs,      \* per lazy static: how many times its initializer was entered
    stack,     \* per thread: the initializers it is inside, innermost last
    got        \* per thread: the last static it dereferenced and the value seen

vars == <<mode, modulus, fself, fother, exponent, pc, base, exp, result, iters,
          curve, P, Q, fed, op, args, out, once, cell, runs, stack, got>>

fieldVars == <<modulus, fself, fother, exponent, pc, base, exp, result, iters>>
curveVars == <<curve, P, Q, fed>>
lazyVars == <<once, cell, runs, stack, got>>

----------------------------------------------------------------------------
(* Bounds of the model *)

\* field runs: moduli 1..MaxModulus
MaxModulus == 7
\* field runs: exponents 0..MaxExponent
MaxExponent == 9
\* curve runs over a prime field: primes up to MaxCurveModulus
MaxCurveModulus == 7
\* curve runs over a prime field: coefficients a, b in 0..MaxCoef
MaxCoef == 1
\* curve runs over i32: point_at takes x in -MaxX..MaxX and y in -MaxY..MaxY
MaxX == 2
MaxY == 5
\* curve runs over i32: at most MaxFeeds sums in a row are fed back as the
\* left operand (the coordinates of off-curve sums grow without bound)
MaxFeeds == 1
\* curve runs: scalars 0..MaxScalar
MaxScalar == 8
\* secp256k1 runs: threads that dereference the lazy statics
MaxThreads == 2

----------------------------------------------------------------------------
(* Values *)

Panic == [panic |-> TRUE]
IsPanic(v) == v = Panic
Num(n) == [num |-> n]

RECURSIVE BitLen(_)
BitLen(n) == IF n = 0 THEN 0 ELSE 1 + BitLen(n \div 2)

IsPrime(n) == n >= 2 /\ \A d \in 2..(n - 1) : n % d # 0

Abs(n) == IF n < 0 THEN -n ELSE n

----------------------------------------------------------------------------
(* num_bigint::BigUint, the operations finite_field.rs uses *)

\* BigUint - BigUint panics when the result would be negative
BigUint_sub(a, b) == IF a < b THEN Panic ELSE Num(a - b)

\* BigUint % BigUint panics on a zero divisor
BigUint_rem(a, m) == IF m = 0 THEN Panic ELSE Num(a % m)

----------------------------------------------------------------------------
(* num_bigint::BigUint beyond the 32-bit integers of TLC: a number is the  *)
(* sequence of its base-256 digits, most significant first, without        *)
(* leading zeros (0 is <<>>). These are the bytes the hex literals of      *)
(* secp256k1.rs spell, two hex digits a byte.                              *)

DigitBase == 256

\* TRUE for every digit sequence; where it stands in a guard TLC evaluates v
\* there, before the next step of a loop, rather than inside a later step
Evaluated(v) == Len(v) >= 0

\* drops the leading zero digits
RECURSIVE Digits_strip(_)
Digits_strip(s) ==
    IF s # <<>> /\ s[1] = 0 THEN Digits_strip(SubSeq(s, 2, Len(s))) ELSE s

\* digit i of a counted from the least significant digit, which is digit 1
Digits_at(a, i) == IF i <= Len(a) THEN a[Len(a) + 1 - i] ELSE 0

\* turns the column sums cols[i], cols[i + 1], ... (column 1 the least
\* significant) into digits, carrying upward; t is the sum in column i
RECURSIVE Digits_carry(_, _, _)
Digits_carry(cols, i, carry) ==
    LET t == (IF i <= Len(cols) THEN cols[i] ELSE 0) + carry
    IN  IF t < DigitBase /\ i >= Len(cols) THEN <<t>>
        ELSE Digits_carry(cols, i + 1, t \div DigitBase) \o <<t % DigitBase>>

\* a + b
Digits_add(a, b) ==
    LET n == IF Len(a) > Len(b) THEN Len(a) ELSE Len(b)
    IN  Digits_strip(Digits_carry([i \in 1..n |-> Digits_at(a, i) + Digits_at(b, i)], 1, 0))

\* the digits of a - b for a >= b from digit i upward, borrowing upward
RECURSIVE Digits_borrow(_, _, _, _)
Digits_borrow(a, b, i, borrow) ==
    IF i > Len(a) THEN <<>>
    ELSE LET t == Digits_at(a, i) - Digits_at(b, i) - borrow
         IN  IF t < 0 THEN Digits_borrow(a, b, i + 1, 1) \o <<t + DigitBase>>
             ELSE Digits_borrow(a, b, i + 1, 0) \o <<t>>

\* a < b where both have the same length, from the leading digit i on
RECURSIVE Digits_lt_from(_, _, _)
Digits_lt_from(a, b, i) ==
    IF i > Len(a) THEN FALSE
    ELSE IF a[i] # b[i] THEN a[i] < b[i]
    ELSE Digits_lt_from(a, b, i + 1)

\* a < b
Digits_lt(a, b) ==
    IF Len(a) # Len(b) THEN Len(a) < Len(b) ELSE Digits_lt_from(a, b, 1)

\* a - b for a >= b
Digits_minus(a, b) == Digits_strip(Digits_borrow(a, b, 1, 0))

\* BigUint - BigUint panics when the result would be negative
Digits_sub(a, b) == IF Digits_lt(a, b) THEN Panic ELSE Num(Digits_minus(a, b))

\* column k of the product: the sum of the digit products a_i * b_(k+1-i)
\* for i in lo..hi
RECURSIVE Digits_column(_, _, _, _, _)
Digits_column(a, b, k, i, hi) ==
    IF i > hi THEN 0
    ELSE Digits_at(a, i) * Digits_at(b, k + 1 - i) + Digits_column(a, b, k, i + 1, hi)

\* a * b
Digits_mul(a, b) ==
    IF a = <<>> \/ b = <<>> THEN <<>>
    ELSE Digits_strip(Digits_carry(
            [k \in 1..(Len(a) + Len(b) - 1) |->
                Digits_column(a, b, k,
                              IF k + 1 - Len(b) > 1 THEN k + 1 - Len(b) ELSE 1,
                              IF k < Len(a) THEN k ELSE Len(a))],
            1, 0))

\* a * q for a small integer q
Digits_scale(a, q) ==
    Digits_strip(Digits_carry([i \in 1..Len(a) |-> Digits_at(a, i) * q], 1, 0))

\* r mod m for r < DigitBase * m: subtracts multiples of m, each an
\* under-estimate of the quotient taken from the leading digits
RECURSIVE Digits_reduce(_, _)
Digits_reduce(r, m) ==
    IF Digits_lt(r, m) THEN r
    ELSE LET lead == IF Len(r) > Len(m) THEN r[1] * DigitBase + r[2] ELSE r[1]
             q == lead \div (m[1] + 1)
         IN  Digits_reduce(Digits_minus(r, Digits_scale(m, IF q = 0 THEN 1 ELSE q)), m)

\* long division, bringing down the digits of a from the leading digit i on;
\* r is the remainder so far
RECURSIVE Digits_rem_from(_, _, _, _)
Digits_rem_from(a, m, i, r) ==
    IF i <= Len(a) /\ Evaluated(r)
    THEN Digits_rem_from(a, m, i + 1, Digits_reduce(Digits_strip(r \o <<a[i]>>), m))
    ELSE r

\* BigUint % BigUint panics on a zero divisor
Digits_rem(a, m) == IF m = <<>> THEN Panic ELSE Num(Digits_rem_from(a, m, 1, <<>>))

\* a % 2 == 1
Digits_odd(a) == a # <<>> /\ a[Len(a)] % 2 = 1

\* the digits of a >> 1 from the leading digit i on; carry is the bit that
\* left the digit before
RECURSIVE Digits_shr1_from(_, _, _)
Digits_shr1_from(a, i, carry) ==
    IF i > Len(a) THEN <<>>
    ELSE <<(carry * DigitBase + a[i]) \div 2>> \o Digits_shr1_from(a, i + 1, a[i] % 2)

\* a >> 1
Digits_shr1(a) == Digits_strip(Digits_shr1_from(a, 1, 0))

\* BigUint::from(n) for an integer n >= 0
RECURSIVE Digits_from(_)
Digits_from(n) ==
    IF n = 0 THEN <<>> ELSE Digits_from(n \div DigitBase) \o <<n % DigitBase>>

----------------------------------------------------------------------------
(* src/src/finite_field.rs *)

\* new whose range test lets the modulus itself through
FiniteField_new_inclusive(num, m) == IF num <= m THEN Num(num) ELSE Panic

\* FiniteField::new: assert!(num < modulus)
FiniteField_new(num, m) == IF num < m THEN Num(num) ELSE Panic

\* exp_step accumulating on the cleared bits instead of the set ones
exp_step_wrong_bit(s, m) ==
    LET r == IF s[2] % 2 = 0 THEN (s[3] * s[1]) % m ELSE s[3]
    IN  <<(s[1] * s[1]) % m, s[2] \div 2, r>>

\* one iteration of the square-and-multiply loop, on <<base, exp, result>>
exp_step(s, m) ==
    LET r == IF s[2] % 2 = 1 THEN (s[3] * s[1]) % m ELSE s[3]
    IN  <<(s[1] * s[1]) % m, s[2] \div 2, r>>

\* while exp > 0 { ... }
RECURSIVE exp_loop(_, _)
exp_loop(s, m) == IF s[2] > 0 THEN exp_loop(exp_step(s, m), m) ELSE s

\* the loop and the final Self::new(result), without the early returns
exp_main(x, e, m) == FiniteField_new(exp_loop(<<x.num, e, 1>>, m)[3], m)

\* FiniteField::exp
FiniteField_exp(x, e, m) ==
    IF IsPanic(x) THEN Panic
    ELSE IF e = 0 THEN Num(1)
    ELSE IF x.num = 0 THEN Num(0)
    ELSE IF x.num = 1 THEN x
    ELSE exp_main(x, e, m)

\* &T + &T
FiniteField_add(x, y, m) ==
    IF IsPanic(x) \/ IsPanic(y) THEN Panic
    ELSE LET r == BigUint_rem(x.num + y.num, m)
         IN  IF IsPanic(r) THEN Panic ELSE FiniteField_new(r.num, m)

\* sub without the + modulus that keeps the BigUint difference non-negative
FiniteField_sub_no_lift(x, y, m) ==
    IF IsPanic(x) \/ IsPanic(y) THEN Panic
    ELSE LET d == BigUint_sub(x.num, y.num)
             r == IF IsPanic(d) THEN Panic ELSE BigUint_rem(d.num, m)
         IN  IF IsPanic(r) THEN Panic ELSE FiniteField_new(r.num, m)

\* &T - &T
FiniteField_sub(x, y, m) ==
    IF IsPanic(x) \/ IsPanic(y) THEN Panic
    ELSE LET d == BigUint_sub(x.num + m, y.num)
             r == IF IsPanic(d) THEN Panic ELSE BigUint_rem(d.num, m)
         IN  IF IsPanic(r) THEN Panic ELSE FiniteField_new(r.num, m)

\* &T * &T
FiniteField_mul(x, y, m) ==
    IF IsPanic(x) \/ IsPanic(y) THEN Panic
    ELSE LET r == BigUint_rem(x.num * y.num, m)
         IN  IF IsPanic(r) THEN Panic ELSE FiniteField_new(r.num, m)

\* div raising to modulus - 1 instead of modulus - 2
FiniteField_div_wrong_exponent(x, y, m) ==
    IF IsPanic(x) \/ IsPanic(y) THEN Panic
    ELSE LET e == BigUint_sub(m, 1)
         IN  IF IsPanic(e) THEN Panic
             ELSE FiniteField_mul(x, FiniteField_exp(y, e.num, m), m)

\* &T / &T
FiniteField_div(x, y, m) ==
    IF IsPanic(x) \/ IsPanic(y) THEN Panic
    ELSE LET e == BigUint_sub(m, 2)
         IN  IF IsPanic(e) THEN Panic
             ELSE FiniteField_mul(x, FiniteField_exp(y, e.num, m), m)

\* From<u32> for FiniteField
FiniteField_from(value, m) == FiniteField_new(value, m)

----------------------------------------------------------------------------
(* src/src/finite_field.rs at the width of secp256k1.rs: the operators of  *)
(* _SECPField = FiniteField<Secp256K1Mod>, on numbers held as digits.       *)

\* FiniteField::new: assert!(num < modulus)
SECPField_new(num, m) == IF Digits_lt(num, m) THEN Num(num) ELSE Panic

\* From<u32> for FiniteField
SECPField_from(value, m) == SECPField_new(Digits_from(value), m)

\* &T + &T
SECPField_add(x, y, m) ==
    IF IsPanic(x) \/ IsPanic(y) THEN Panic
    ELSE LET r == Digits_rem(Digits_add(x.num, y.num), m)
         IN  IF IsPanic(r) THEN Panic ELSE SECPField_new(r.num, m)

\* &T - &T
SECPField_sub(x, y, m) ==
    IF IsPanic(x) \/ IsPanic(y) THEN Panic
    ELSE LET d == Digits_sub(Digits_add(x.num, m), y.num)
             r == IF IsPanic(d) THEN Panic ELSE Digits_rem(d.num, m)
         IN  IF IsPanic(r) THEN Panic ELSE SECPField_new(r.num, m)

\* &T * &T
SECPField_mul(x, y, m) ==
    IF IsPanic(x) \/ IsPanic(y) THEN Panic
    ELSE LET r == Digits_rem(Digits_mul(x.num, y.num), m)
         IN  IF IsPanic(r) THEN Panic ELSE SECPField_new(r.num, m)

\* while exp > 0 { ... }, from the values b, e, r of base, exp and result
RECURSIVE SECPField_exp_loop(_, _, _, _)
SECPField_exp_loop(b, e, r, m) ==
    IF e # <<>> /\ Evaluated(b) /\ Evaluated(r)
    THEN SECPField_exp_loop(Digits_rem(Digits_mul(b, b), m).num,
                            Digits_shr1(e),
                            IF Digits_odd(e) THEN Digits_rem(Digits_mul(r, b), m).num ELSE r,
                            m)
    ELSE r

\* FiniteField::exp
SECPField_exp(x, e, m) ==
    IF IsPanic(x) THEN Panic
    ELSE IF e = <<>> THEN Num(<<1>>)
    ELSE IF x.num = <<>> THEN Num(<<>>)
    ELSE IF x.num = <<1>> THEN x
    ELSE IF m = <<>> THEN Panic
    ELSE SECPField_new(SECPField_exp_loop(x.num, e, <<1>>, m), m)

\* &T / &T
SECPField_div(x, y, m) ==
    IF IsPanic(x) \/ IsPanic(y) THEN Panic
    ELSE LET e == Digits_sub(m, <<2>>)
         IN  IF IsPanic(e) THEN Panic
             ELSE SECPField_mul(x, SECPField_exp(y, e.num, m), m)

----------------------------------------------------------------------------
(* i32, as the curve code uses it. Arithmetic that leaves the i32 range     *)
(* panics ("attempt to ... with overflow", the test profile); the range   *)
(* tests are written so that no intermediate value leaves it either.       *)

I32_MAX == 2147483647
I32_MIN == -I32_MAX - 1

i32_add(x, y) ==
    IF (y.num > 0 /\ x.num > I32_MAX - y.num) \/ (y.num < 0 /\ x.num < I32_MIN - y.num)
    THEN Panic ELSE Num(x.num + y.num)

i32_sub(x, y) ==
    IF (y.num < 0 /\ x.num > I32_MAX + y.num) \/ (y.num > 0 /\ x.num < I32_MIN + y.num)
    THEN Panic ELSE Num(x.num - y.num)

\* 2^31 \div n for 2 <= n <= I32_MAX, without leaving the i32 range
Pow31Div(n) == (I32_MAX \div n) + (IF (I32_MAX % n) + 1 = n THEN 1 ELSE 0)

\* a product fits when it lies in I32_MIN..I32_MAX: a negative one may reach
\* -2^31, a positive one 2^31 - 1
i32_mul(x, y) ==
    IF x.num = 0 \/ y.num = 0 THEN Num(0)
    ELSE IF x.num = 1 THEN y
    ELSE IF y.num = 1 THEN x
    ELSE IF x.num = I32_MIN \/ y.num = I32_MIN THEN Panic
    ELSE IF x.num = -1 THEN Num(-y.num)
    ELSE IF y.num = -1 THEN Num(-x.num)
    ELSE IF (x.num < 0) = (y.num < 0)
         THEN (IF Abs(x.num) > I32_MAX \div Abs(y.num) THEN Panic
               ELSE Num(x.num * y.num))
    ELSE IF Abs(x.num) > Pow31Div(Abs(y.num)) THEN Panic
    ELSE Num(x.num * y.num)

\* i32 / i32 truncates toward zero and panics on a zero divisor
i32_div(x, y) ==
    IF y.num = 0 THEN Panic
    ELSE IF x.num = I32_MIN /\ y.num = -1 THEN Panic
    ELSE IF y.num = 1 THEN x
    ELSE IF y.num = I32_MIN THEN Num(IF x.num = I32_MIN THEN 1 ELSE 0)
    ELSE IF x.num = I32_MIN
         THEN Num(IF y.num > 0 THEN -Pow31Div(y.num) ELSE Pow31Div(-y.num))
    ELSE LET q == Abs(x.num) \div Abs(y.num)
         IN  Num(IF (x.num < 0) = (y.num < 0) THEN q ELSE -q)

----------------------------------------------------------------------------
(* The coordinate type T of ec_generic.rs: i32 (kind "i32"), or a          *)
(* prime-field element (finite_field.rs) whose modulus the curve record    *)
(* carries as K.m: an integer (kind "fp"), or the digits of a 256-bit      *)
(* modulus (kind "fp256", the field of secp256k1.rs).                      *)

T_add(K, x, y) ==
    IF IsPanic(x) \/ IsPanic(y) THEN Panic
    ELSE IF K.kind = "i32" THEN i32_add(x, y)
    ELSE IF K.kind = "fp256" THEN SECPField_add(x, y, K.m)
    ELSE FiniteField_add(x, y, K.m)

T_sub(K, x, y) ==
    IF IsPanic(x) \/ IsPanic(y) THEN Panic
    ELSE IF K.kind = "i32" THEN i32_sub(x, y)
    ELSE IF K.kind = "fp256" THEN SECPField_sub(x, y, K.m)
    ELSE FiniteField_sub(x, y, K.m)

T_mul(K, x, y) ==
    IF IsPanic(x) \/ IsPanic(y) THEN Panic
    ELSE IF K.kind = "i32" THEN i32_mul(x, y)
    ELSE IF K.kind = "fp256" THEN SECPField_mul(x, y, K.m)
    ELSE FiniteField_mul(x, y, K.m)

T_div(K, x, y) ==
    IF IsPanic(x) \/ IsPanic(y) THEN Panic
    ELSE IF K.kind = "i32" THEN i32_div(x, y)
    ELSE IF K.kind = "fp256" THEN SECPField_div(x, y, K.m)
    ELSE FiniteField_div(x, y, K.m)

\* T::from_i32(n).unwrap()
T_from_i32(K, n) ==
    IF K.kind = "i32" THEN Num(n)
    ELSE IF K.kind = "fp256" THEN SECPField_from(n, K.m)
    ELSE FiniteField_from(n, K.m)

----------------------------------------------------------------------------
(* src/src/ec_generic.rs *)

Invalid == [tag |-> "Invalid"]
Infinity == [tag |-> "Infinity"]
Point(x, y) == [tag |-> "Point", x |-> x, y |-> y]

ECPoint(c, p) == [curve |-> c, p |-> p]

\* #[derive(PartialEq)] on ECurve, compared through the reference: a and b
ECurve_eq(c1, c2) == c1.a = c2.a /\ c1.b = c2.b

\* #[derive(PartialEq)] on ECPoint
ECPoint_eq(u, v) ==
    IF IsPanic(u) \/ IsPanic(v) THEN FALSE
    ELSE ECurve_eq(u.curve, v.curve) /\ u.p = v.p

\* the two sides of the curve equation: y * y and x * x * x + self.a * x + self.b
contains_lhs(c, y) == T_mul(c, y, y)

\* the right side without the constant term b
contains_rhs_no_b(c, x) ==
    T_add(c, T_mul(c, T_mul(c, x, x), x), T_mul(c, c.a, x))

contains_rhs(c, x) ==
    T_add(c, T_add(c, T_mul(c, T_mul(c, x, x), x), T_mul(c, c.a, x)), c.b)

\* the arithmetic of contains panics (i32 overflow)
contains_panics(c, x, y) == IsPanic(contains_lhs(c, y)) \/ IsPanic(contains_rhs(c, x))

\* ECurve::contains, where its arithmetic does not panic
ECurve_contains(c, x, y) == contains_lhs(c, y) = contains_rhs(c, x)

\* ECurve::point_at
ECurve_point_at(c, x, y) ==
    IF contains_panics(c, x, y) THEN Panic
    ELSE IF ECurve_contains(c, x, y) THEN ECPoint(c, Point(x, y))
    ELSE ECPoint(c, Invalid)

\* ECurve::infinity
ECurve_infinity(c) == ECPoint(c, Infinity)

\* the slope without the early return for a vertical tangent
add_slope_no_vertical(c, p, q) ==
    IF p = q
    THEN LET three == T_from_i32(c, 3)
             two == T_from_i32(c, 2)
         IN  T_div(c, T_add(c, T_mul(c, T_mul(c, three, p.x), p.x), c.a),
                      T_mul(c, two, p.y))
    ELSE T_div(c, T_sub(c, q.y, p.y), T_sub(c, q.x, p.x))

\* the slope with the tangent's 3 * x * x written 2 * x * x
add_slope_wrong_tangent(c, p, q) ==
    IF p = q
    THEN IF p.y = T_from_i32(c, 0)
         THEN [ret |-> ECPoint(c, Infinity)]
         ELSE LET two == T_from_i32(c, 2)
              IN  T_div(c, T_add(c, T_mul(c, T_mul(c, two, p.x), p.x), c.a),
                           T_mul(c, two, p.y))
    ELSE T_div(c, T_sub(c, q.y, p.y), T_sub(c, q.x, p.x))

\* the slope of step 3 of add, for two Point operands that are not inverses;
\* [ret |-> point] when the doubling of a point with y = 0 returns early
add_slope(c, p, q) ==
    IF p = q
    THEN IF p.y = T_from_i32(c, 0)
         THEN [ret |-> ECPoint(c, Infinity)]
         ELSE LET three == T_from_i32(c, 3)
                  two == T_from_i32(c, 2)
              IN  T_div(c, T_add(c, T_mul(c, T_mul(c, three, p.x), p.x), c.a),
                           T_mul(c, two, p.y))
    ELSE T_div(c, T_sub(c, q.y, p.y), T_sub(c, q.x, p.x))

\* the sum of two Point operands: steps 2 and 3 of add
add_points(c, p, q) ==
    IF p.x = q.x /\ p.y # q.y THEN ECPoint(c, Infinity)
    ELSE LET s == add_slope(c, p, q)
         IN  IF "ret" \in DOMAIN s THEN s.ret
             ELSE LET x == T_sub(c, T_sub(c, T_mul(c, s, s), p.x), q.x)
                      y == T_sub(c, T_mul(c, s, T_sub(c, p.x, x)), p.y)
                  IN  IF IsPanic(x) \/ IsPanic(y) THEN Panic
                      ELSE ECPoint(c, Point(x, y))

\* add whose first match arm returns self instead of rhs
ECPoint_add_returns_self(self, rhs) ==
    IF IsPanic(self) \/ IsPanic(rhs) THEN Panic
    ELSE IF ~ECurve_eq(self.curve, rhs.curve) THEN Panic
    ELSE IF self.p = Infinity THEN self
    ELSE IF rhs.p = Infinity THEN self
    ELSE IF self.p = Invalid \/ rhs.p = Invalid THEN ECPoint(self.curve, Invalid)
    ELSE add_points(self.curve, self.p, rhs.p)

\* add whose Invalid arm only looks at the left operand
ECPoint_add_invalid_left_only(self, rhs) ==
    IF IsPanic(self) \/ IsPanic(rhs) THEN Panic
    ELSE IF ~ECurve_eq(self.curve, rhs.curve) THEN Panic
    ELSE IF self.p = Infinity THEN rhs
    ELSE IF rhs.p = Infinity THEN self
    ELSE IF self.p = Invalid THEN ECPoint(self.curve, Invalid)
    ELSE IF rhs.p = Invalid THEN self
    ELSE add_points(self.curve, self.p, rhs.p)

\* add that tests the curves only after the identity and Invalid arms
ECPoint_add_late_curve_test(self, rhs) ==
    IF IsPanic(self) \/ IsPanic(rhs) THEN Panic
    ELSE IF self.p = Infinity THEN rhs
    ELSE IF rhs.p = Infinity THEN self
    ELSE IF self.p = Invalid \/ rhs.p = Invalid THEN ECPoint(self.curve, Invalid)
    ELSE IF ~ECurve_eq(self.curve, rhs.curve) THEN Panic
    ELSE add_points(self.curve, self.p, rhs.p)

\* impl Add for ECPoint
ECPoint_add(self, rhs) ==
    IF IsPanic(self) \/ IsPanic(rhs) THEN Panic
    ELSE IF ~ECurve_eq(self.curve, rhs.curve) THEN Panic
    ELSE IF self.p = Infinity THEN rhs
    ELSE IF rhs.p = Infinity THEN self
    ELSE IF self.p = Invalid \/ rhs.p = Invalid THEN ECPoint(self.curve, Invalid)
    ELSE add_points(self.curve, self.p, rhs.p)

----------------------------------------------------------------------------
(* Scalar multiplication, point * BigUint. The operator is used by         *)
(* secp256k1.rs and the bench but implemented in crate::ec, which is not   *)
(* among the sources; it is written here as the specification describes   *)
(* it: double-and-add mirroring the square-and-multiply loop of exp.       *)

\* one round of the loop, on <<base, k, result>>
scalar_step(s) ==
    <<ECPoint_add(s[1], s[1]),
      s[2] \div 2,
      IF s[2] % 2 = 1 THEN ECPoint_add(s[3], s[1]) ELSE s[3]>>

\* while k > 0 { ... }
RECURSIVE scalar_loop(_)
scalar_loop(s) == IF s[2] > 0 THEN scalar_loop(scalar_step(s)) ELSE s

\* point * k
scalar_multiply(p, k) ==
    IF IsPanic(p) THEN Panic
    ELSE scalar_loop(<<p, k, ECurve_infinity(p.curve)>>)[3]

----------------------------------------------------------------------------
(* src/src/ec.rs: the const-generic i32 variant. The type parameters A, B *)
(* are the fields a, b of the curve record c.                             *)

None == [tag |-> "None"]
Some(v) == [tag |-> "Some", v |-> v]
Coordinates(x, y) == [x |-> x, y |-> y]

\* EPoint::infinity
EPoint_infinity == [p |-> None]

\* EPoint::new
EPoint_new(x, y) == [p |-> Some(Coordinates(x, y))]

\* EPoint::is_infinity
EPoint_is_infinity(self) == self.p = None

\* the two sides of y * y == x * x * x + A * x + B
EC_contains_lhs(c, y) == i32_mul(y, y)
EC_contains_rhs(c, x) ==
    LET x3 == T_mul(c, i32_mul(x, x), x)
        ax == i32_mul(c.a, x)
    IN  T_add(c, T_add(c, x3, ax), c.b)

EC_contains_panics(c, x, y) ==
    IsPanic(EC_contains_lhs(c, y)) \/ IsPanic(EC_contains_rhs(c, x))

\* ECurve::contains (ec.rs), where its arithmetic does not panic
EC_contains(c, x, y) == EC_contains_lhs(c, y) = EC_contains_rhs(c, x)

\* ECurve::point_at (ec.rs): Option<EPoint>
EC_point_at(c, x, y) ==
    IF EC_contains_panics(c, x, y) THEN Panic
    ELSE IF EC_contains(c, x, y) THEN Some(EPoint_new(x, y))
    ELSE None

\* ECurve::point_at_ifty
EC_point_at_ifty == EPoint_infinity

\* impl Add for EPoint
EPoint_add(c, self, other) ==
    IF IsPanic(self) \/ IsPanic(other) THEN Panic
    ELSE IF EPoint_is_infinity(self) THEN other
    ELSE IF EPoint_is_infinity(other) THEN self
    ELSE LET sc == self.p.v
             oc == other.p.v
         IN  IF sc.x = oc.x /\ sc.y # oc.y THEN EPoint_infinity
             ELSE IF self = other /\ sc.y = Num(0) THEN EPoint_infinity
             ELSE LET s == IF self = other
                           THEN T_div(c, T_add(c, T_mul(c, i32_mul(Num(3), sc.x), sc.x), c.a),
                                         i32_mul(Num(2), sc.y))
                           ELSE T_div(c, T_sub(c, oc.y, sc.y), T_sub(c, oc.x, sc.x))
                      x == T_sub(c, T_sub(c, T_mul(c, s, s), sc.x), oc.x)
                      y == T_sub(c, T_mul(c, s, T_sub(c, sc.x, x)), sc.y)
                  IN  IF IsPanic(x) \/ IsPanic(y) THEN Panic
                      ELSE EPoint_new(x, y)

----------------------------------------------------------------------------
(* src/src/secp256k1.rs: the lazy statics. The 256-bit literals are the    *)
(* source's, as digits: BigUint::parse_bytes(b"...", 16) of 64 hex digits  *)
(* is 32 bytes, most significant first.                                    *)

SECP256K1_A == 0
SECP256K1_B == 7

\* FFFFFFFF FFFFFFFF FFFFFFFF FFFFFFFF FFFFFFFF FFFFFFFF FFFFFFFE FFFFFC2F
SECP256K1_PRIME_value ==
    <<255, 255, 255, 255, 255, 255, 255, 255, 255, 255, 255, 255, 255, 255, 255, 255,
      255, 255, 255, 255, 255, 255, 255, 255, 255, 255, 255, 254, 255, 255, 252, 47>>

\* 79be667e f9dcbbac 55a06295 ce870b07 029bfcdb 2dce28d9 59f2815b 16f81798
SECP256K1_GX_value ==
    <<121, 190, 102, 126, 249, 220, 187, 172, 85, 160, 98, 149, 206, 135, 11, 7,
      2, 155, 252, 219, 45, 206, 40, 217, 89, 242, 129, 91, 22, 248, 23, 152>>

\* 483ada77 26a3c465 5da4fbfc 0e1108a8 fd17b448 a6855419 9c47d08f fb10d4b8
SECP256K1_GY_value ==
    <<72, 58, 218, 119, 38, 163, 196, 101, 93, 164, 251, 252, 14, 17, 8, 168,
      253, 23, 180, 72, 166, 133, 84, 25, 156, 71, 208, 143, 251, 16, 212, 184>>

\* ffffffff ffffffff ffffffff fffffffe baaedce6 af48a03b bfd25e8c d0364141
SECP256K1_N_value ==
    <<255, 255, 255, 255, 255, 255, 255, 255, 255, 255, 255, 255, 255, 255, 255, 254,
      186, 174, 220, 230, 175, 72, 160, 59, 191, 210, 94, 140, 208, 54, 65, 65>>

Statics == {"SECP256K1_PRIME", "SECP256K1_GX", "SECP256K1_GY", "SECP256K1_G",
            "SECP256K1_N", "SECP256K1"}

Threads == 1..MaxThreads

\* the content of a Lazy cell before its initializer has stored a value
Uninit == [uninit |-> TRUE]

\* a thread that has dereferenced nothing yet
NoRead == [static |-> "none", value |-> Uninit]

\* the lazy statics an initializer dereferences, in evaluation order.
\* FiniteField::new and the field operators call F::modulus(), which
\* dereferences SECP256K1_PRIME; point_at is called on SECP256K1 with clones
\* of SECP256K1_GX and SECP256K1_GY and runs the field operators of contains.
Deps(c) ==
    CASE c = "SECP256K1_PRIME" -> <<>>
      [] c = "SECP256K1_GX" -> <<"SECP256K1_PRIME">>
      [] c = "SECP256K1_GY" -> <<"SECP256K1_PRIME">>
      [] c = "SECP256K1_G" -> <<"SECP256K1", "SECP256K1_GX", "SECP256K1_GY", "SECP256K1_PRIME">>
      [] c = "SECP256K1_N" -> <<>>
      [] c = "SECP256K1" -> <<"SECP256K1_PRIME">>

\* EllipticCurve::new(SECP256K1_A, SECP256K1_B) over the field of modulus m
EllipticCurve_new(a, b, m) ==
    LET fa == SECPField_from(a, m)
        fb == SECPField_from(b, m)
    IN  IF IsPanic(fa) \/ IsPanic(fb) THEN Panic
        ELSE [id |-> 1, kind |-> "fp256", m |-> m, a |-> fa, b |-> fb]

\* the initializer expression of SECP256K1_G on the values v of SECP256K1,
\* SECP256K1_GX, SECP256K1_GY and SECP256K1_PRIME
Initializer_G(v) ==
    IF IsPanic(v[1]) \/ IsPanic(v[2]) \/ IsPanic(v[3]) THEN Panic
    ELSE ECurve_point_at([v[1] EXCEPT !.m = v[4].num], v[2], v[3])

\* the values the dereferences of the initializer of SECP256K1_G return
\* when every initializer before it has stored its value
SECP256K1_G_inputs ==
    <<EllipticCurve_new(SECP256K1_A, SECP256K1_B, SECP256K1_PRIME_value),
      SECPField_new(SECP256K1_GX_value, SECP256K1_PRIME_value),
      SECPField_new(SECP256K1_GY_value, SECP256K1_PRIME_value),
      Num(SECP256K1_PRIME_value)>>

\* the initializer of SECP256K1_G on those values; its 256-bit field
\* arithmetic is evaluated once for a run of TLC, not once for a state
SECP256K1_G_value == Initializer_G(SECP256K1_G_inputs)

\* the initializer expression of static c, on the values v its dereferences
\* returned (in the order of Deps)
Initializer(c, v) ==
    CASE c = "SECP256K1_PRIME" -> Num(SECP256K1_PRIME_value)
      [] c = "SECP256K1_GX" -> SECPField_new(SECP256K1_GX_value, v[1].num)
      [] c = "SECP256K1_GY" -> SECPField_new(SECP256K1_GY_value, v[1].num)
      [] c = "SECP256K1_G" ->
            IF v = SECP256K1_G_inputs THEN SECP256K1_G_value ELSE Initializer_G(v)
      [] c = "SECP256K1_N" -> Num(SECP256K1_N_value)
      [] c = "SECP256K1" -> EllipticCurve_new(SECP256K1_A, SECP256K1_B, v[1].num)

\* call_once that lets a thread in while another thread runs the initializer
call_once_enters_unguarded(st) == st # "complete"

\* Once::call_once runs the closure for the one caller that finds the Once
\* incomplete; a caller that finds it running waits
call_once_enters(st) == st = "incomplete"

\* no static has been dereferenced
LazyInit ==
    /\ once = [c \in Statics |-> "incomplete"]
    /\ cell = [c \in Statics |-> Uninit]
    /\ runs = [c \in Statics |-> 0]
    /\ stack = [t \in Threads |-> <<>>]
    /\ got = [t \in Threads |-> NoRead]

----------------------------------------------------------------------------
(* The field machine: a caller building elements and applying the operators *)

idleCurve == [id |-> 0, kind |-> "none", m |-> 0, a |-> Num(0), b |-> Num(0)]
NoPoint == [none |-> TRUE]

InitField ==
    /\ mode = "field"
    /\ modulus \in 1..MaxModulus
    /\ fself = FiniteField_new(0, modulus)
    /\ fother = FiniteField_new(0, modulus)
    /\ exponent = 0
    /\ pc = "idle"
    /\ base = 0
    /\ exp = 0
    /\ result = 0
    /\ iters = 0
    /\ LazyInit
    /\ curve = idleCurve
    /\ P = NoPoint
    /\ Q = NoPoint
    /\ fed = 0
    /\ op = "init"
    /\ args = <<>>
    /\ out = NoPoint

\* let x = FiniteField::new(value); a panic leaves the operand as it was
FNew(side, value) ==
    /\ mode = "field"
    /\ pc = "idle"
    /\ out' = FiniteField_new(value, modulus)
    /\ op' = "new"
    /\ args' = <<value>>
    /\ IF IsPanic(out')
         THEN UNCHANGED <<fself, fother>>
         ELSE IF side = "self"
                THEN fself' = out' /\ UNCHANGED fother
                ELSE fother' = out' /\ UNCHANGED fself
    /\ exponent' = 0
    /\ iters' = 0
    /\ UNCHANGED <<mode, modulus, pc, base, exp, result>>
    /\ UNCHANGED <<curveVars, lazyVars>>

FBinary(name, value) ==
    /\ mode = "field"
    /\ pc = "idle"
    /\ out' = value
    /\ op' = name
    /\ args' = <<>>
    /\ exponent' = 0
    /\ iters' = 0
    /\ UNCHANGED <<mode, modulus, fself, fother, pc, base, exp, result>>
    /\ UNCHANGED <<curveVars, lazyVars>>

FAdd == FBinary("add", FiniteField_add(fself, fother, modulus))
FSub == FBinary("sub", FiniteField_sub(fself, fother, modulus))
FMul == FBinary("mul", FiniteField_mul(fself, fother, modulus))
FDiv == FBinary("div", FiniteField_div(fself, fother, modulus))

\* self.exp(e): entry, with the three early returns
FExpCall(e) ==
    /\ mode = "field"
    /\ pc = "idle"
    /\ exponent' = e
    /\ args' = <<e>>
    /\ iters' = 0
    /\ IF e = 0 \/ fself.num = 0 \/ fself.num = 1
         THEN /\ out' = FiniteField_exp(fself, e, modulus)
              /\ op' = "exp"
              /\ UNCHANGED <<pc, base, exp, result>>
         ELSE /\ pc' = "loop"
              /\ base' = fself.num
              /\ exp' = e
              /\ result' = 1
              /\ op' = "exp_running"
              /\ UNCHANGED out
    /\ UNCHANGED <<mode, modulus, fself, fother>>
    /\ UNCHANGED <<curveVars, lazyVars>>

\* one iteration of while exp > 0
FExpStep ==
    /\ mode = "field"
    /\ pc = "loop"
    /\ exp > 0
    /\ LET s == exp_step(<<base, exp, result>>, modulus)
       IN  /\ base' = s[1]
           /\ exp' = s[2]
           /\ result' = s[3]
    /\ iters' = iters + 1
    /\ UNCHANGED <<mode, modulus, fself, fother, exponent, pc, op, args, out>>
    /\ UNCHANGED <<curveVars, lazyVars>>

\* loop exit: Self::new(result); the locals go out of scope
FExpReturn ==
    /\ mode = "field"
    /\ pc = "loop"
    /\ ~(exp > 0)
    /\ out' = FiniteField_new(result, modulus)
    /\ op' = "exp"
    /\ pc' = "idle"
    /\ base' = 0
    /\ exp' = 0
    /\ result' = 0
    /\ UNCHANGED <<mode, modulus, fself, fother, exponent, iters, args>>
    /\ UNCHANGED <<curveVars, lazyVars>>

NextField ==
    \/ \E side \in {"self", "other"}, value \in 0..modulus : FNew(side, value)
    \/ FAdd
    \/ FSub
    \/ FMul
    \/ FDiv
    \/ \E e \in 0..MaxExponent : FExpCall(e)
    \/ FExpStep
    \/ FExpReturn

SpecField == InitField /\ [][NextField]_vars

----------------------------------------------------------------------------
(* The curve machine over ec_generic.rs: a caller that builds a point q   *)
(* on one curve with point_at or infinity, copies it into p, adds p + q,  *)
(* and keeps a sum as the next p.                                         *)

\* the curves of the i32 tests: y^2 = x^3 + 5x + 7 and y^2 = x^3 + x + 10
I32Curves ==
    { [id |-> 1, kind |-> "i32", m |-> 0, a |-> Num(ab[1]), b |-> Num(ab[2])] :
        ab \in {<<5, 7>>, <<1, 10>>} }

\* prime fields in which the constants 2 and 3 of add are field elements
CurveModuli == {m \in 4..MaxCurveModulus : IsPrime(m)}

FieldCurves ==
    { c \in { [id |-> 1, kind |-> "fp", m |-> m, a |-> Num(a), b |-> Num(b)] :
                m \in CurveModuli, a \in 0..MaxCoef, b \in 0..MaxCoef } :
        c.a.num < c.m /\ c.b.num < c.m }

\* the values a caller can pass as a coordinate
XCoords(c) ==
    IF c.kind = "i32" THEN {Num(n) : n \in (-MaxX)..MaxX}
    ELSE {Num(n) : n \in 0..(c.m - 1)}

YCoords(c) ==
    IF c.kind = "i32" THEN {Num(n) : n \in (-MaxY)..MaxY}
    ELSE {Num(n) : n \in 0..(c.m - 1)}

\* the coordinates a caller passes to EPoint::new: a point with y = 0 and a
\* point with y # 0, on neither curve of I32Curves
NewPoints == {<<Num(0), Num(0)>>, <<Num(3), Num(3)>>}

InitGeneric ==
    /\ mode = "generic"
    /\ curve \in I32Curves \cup FieldCurves
    /\ P = ECurve_infinity(curve)
    /\ Q = ECurve_infinity(curve)
    /\ fed = 0
    /\ op = "infinity"
    /\ args = <<>>
    /\ out = ECurve_infinity(curve)
    /\ modulus = 0
    /\ fself = Num(0)
    /\ fother = Num(0)
    /\ exponent = 0
    /\ pc = "idle"
    /\ base = 0
    /\ exp = 0
    /\ result = 0
    /\ iters = 0
    /\ LazyInit

\* let q = curve.point_at(x, y);
PointAt(x, y) ==
    /\ mode = "generic"
    /\ out' = ECurve_point_at(curve, x, y)
    /\ op' = "point_at"
    /\ args' = <<x, y>>
    /\ Q' = IF IsPanic(out') THEN Q ELSE out'
    /\ UNCHANGED <<mode, curve, P, fed>>
    /\ UNCHANGED <<fieldVars, lazyVars>>

\* let q = curve.infinity();
MkInfinity ==
    /\ mode = "generic"
    /\ out' = ECurve_infinity(curve)
    /\ op' = "infinity"
    /\ args' = <<>>
    /\ Q' = out'
    /\ UNCHANGED <<mode, curve, P, fed>>
    /\ UNCHANGED <<fieldVars, lazyVars>>

\* let p = q; (ECPoint is Copy)
Copy ==
    /\ mode \in {"generic", "const"}
    /\ P' = Q
    /\ fed' = 0
    /\ op' = "copy"
    /\ args' = <<>>
    /\ out' = NoPoint
    /\ UNCHANGED <<mode, curve, Q>>
    /\ UNCHANGED <<fieldVars, lazyVars>>

\* p + q
Add ==
    /\ mode = "generic"
    /\ out' = ECPoint_add(P, Q)
    /\ op' = "add"
    /\ args' = <<>>
    /\ UNCHANGED <<mode, curve, P, Q, fed>>
    /\ UNCHANGED <<fieldVars, lazyVars>>

\* let p = p + q; the sum becomes the left operand
Feed ==
    /\ mode \in {"generic", "const"}
    /\ op = "add"
    /\ ~IsPanic(out)
    /\ curve.kind = "i32" => fed < MaxFeeds
    /\ P' = out
    /\ fed' = IF curve.kind = "i32" THEN fed + 1 ELSE fed
    /\ op' = "feed"
    /\ UNCHANGED <<mode, curve, Q, args, out>>
    /\ UNCHANGED <<fieldVars, lazyVars>>

NextGeneric ==
    \/ \E x \in XCoords(curve), y \in YCoords(curve) : PointAt(x, y)
    \/ MkInfinity
    \/ Copy
    \/ Add
    \/ Feed

SpecGeneric == InitGeneric /\ [][NextGeneric]_vars

----------------------------------------------------------------------------
(* A caller with a second curve object: points built before and after    *)
(* ECurve::new meet in one add.                                            *)

\* the curves of the coordinate type of c
SameTypeCurves(c) ==
    {d \in I32Curves \cup FieldCurves : d.kind = c.kind /\ d.m = c.m}

\* let curve = ECurve::new(a, b); the points built so far keep their curve
NewCurve(d) ==
    /\ mode = "generic"
    /\ curve.id = 1
    /\ curve' = [d EXCEPT !.id = 2]
    /\ op' = "new_curve"
    /\ args' = <<d.a, d.b>>
    /\ out' = NoPoint
    /\ UNCHANGED <<mode, P, Q, fed>>
    /\ UNCHANGED <<fieldVars, lazyVars>>

NextTwoCurves ==
    \/ \E x \in XCoords(curve), y \in YCoords(curve) : PointAt(x, y)
    \/ MkInfinity
    \/ Copy
    \/ Add
    \/ \E d \in SameTypeCurves(curve) : NewCurve(d)

\* the coordinate type is i32 or the smallest of the prime fields: the type
\* fixes the modulus, so that the two curves of one add never differ in it
InitTwoCurves ==
    /\ InitGeneric
    /\ curve.kind = "fp" => \A m \in CurveModuli : curve.m <= m

SpecTwoCurves == InitTwoCurves /\ [][NextTwoCurves]_vars

----------------------------------------------------------------------------
(* The caller of the curve machine, multiplying as well                    *)

\* p * k
ScalarMul(k) ==
    /\ mode = "generic"
    /\ out' = scalar_multiply(P, k)
    /\ op' = "mul"
    /\ args' = <<k>>
    /\ UNCHANGED <<mode, curve, P, Q, fed>>
    /\ UNCHANGED <<fieldVars, lazyVars>>

NextScalar ==
    \/ \E x \in XCoords(curve), y \in YCoords(curve) : PointAt(x, y)
    \/ MkInfinity
    \/ Copy
    \/ Add
    \/ Feed
    \/ \E k \in 0..MaxScalar : ScalarMul(k)

\* the operator is defined on points over a field
InitScalar ==
    /\ InitGeneric
    /\ curve.kind = "fp"

SpecScalar == InitScalar /\ [][NextScalar]_vars

----------------------------------------------------------------------------
(* The curve machine over ec.rs: the same caller, on EPoint<A, B>          *)

InitConst ==
    /\ mode = "const"
    /\ curve \in I32Curves
    /\ P = EPoint_infinity
    /\ Q = EPoint_infinity
    /\ fed = 0
    /\ op = "infinity"
    /\ args = <<>>
    /\ out = EPoint_infinity
    /\ modulus = 0
    /\ fself = Num(0)
    /\ fother = Num(0)
    /\ exponent = 0
    /\ pc = "idle"
    /\ base = 0
    /\ exp = 0
    /\ result = 0
    /\ iters = 0
    /\ LazyInit

\* let q = curve.point_at(x, y).unwrap(); None (and a panic) binds nothing
EPointAt(x, y) ==
    /\ mode = "const"
    /\ out' = EC_point_at(curve, x, y)
    /\ op' = "point_at"
    /\ args' = <<x, y>>
    /\ Q' = IF IsPanic(out') \/ out' = None THEN Q ELSE out'.v
    /\ UNCHANGED <<mode, curve, P, fed>>
    /\ UNCHANGED <<fieldVars, lazyVars>>

\* let q = EPoint::new(x, y); the constructor tests nothing
ENew(x, y) ==
    /\ mode = "const"
    /\ out' = EPoint_new(x, y)
    /\ op' = "new"
    /\ args' = <<x, y>>
    /\ Q' = out'
    /\ UNCHANGED <<mode, curve, P, fed>>
    /\ UNCHANGED <<fieldVars, lazyVars>>

\* let q = curve.point_at_ifty();
EInfinity ==
    /\ mode = "const"
    /\ out' = EC_point_at_ifty
    /\ op' = "infinity"
    /\ args' = <<>>
    /\ Q' = out'
    /\ UNCHANGED <<mode, curve, P, fed>>
    /\ UNCHANGED <<fieldVars, lazyVars>>

\* p + q
EAdd ==
    /\ mode = "const"
    /\ out' = EPoint_add(curve, P, Q)
    /\ op' = "add"
    /\ args' = <<>>
    /\ UNCHANGED <<mode, curve, P, Q, fed>>
    /\ UNCHANGED <<fieldVars, lazyVars>>

NextConst ==
    \/ \E x \in XCoords(curve), y \in YCoords(curve) : EPointAt(x, y)
    \/ \E xy \in NewPoints : ENew(xy[1], xy[2])
    \/ EInfinity
    \/ Copy
    \/ EAdd
    \/ Feed

SpecConst == InitConst /\ [][NextConst]_vars

----------------------------------------------------------------------------
(* The lazy statics of secp256k1.rs under threads. Every dereference of a  *)
(* static goes through its Once: the first caller runs the initializer,    *)
(* which dereferences the statics of Deps in turn, stores the value and    *)
(* completes the Once; a caller that finds the Once running waits; a       *)
(* caller that finds it complete reads the cell.                           *)

InitSecp ==
    /\ mode = "secp256k1"
    /\ LazyInit
    /\ modulus = 0
    /\ fself = Num(0)
    /\ fother = Num(0)
    /\ exponent = 0
    /\ pc = "idle"
    /\ base = 0
    /\ exp = 0
    /\ result = 0
    /\ iters = 0
    /\ curve = idleCurve
    /\ P = NoPoint
    /\ Q = NoPoint
    /\ fed = 0
    /\ op = "init"
    /\ args = <<>>
    /\ out = NoPoint

\* thread t is inside an initializer
Inside(t) == stack[t] # <<>>

\* the innermost initializer thread t is inside
Top(t) == stack[t][Len(stack[t])]

\* the initializer of Top(t) has dereferenced all its statics
DepsRead(t) == Len(Top(t).vals) = Len(Deps(Top(t).static))

\* call_once of the innermost initializer of t has ended (the value stored
\* and the Once complete, or the Once poisoned), and Lazy::get has not yet
\* returned to the code that dereferenced the static
Finished(t) == Top(t).ret # Uninit

\* the last dereference inside the innermost initializer of t panicked: the
\* panic is leaving that initializer
Panicking(t) ==
    /\ Top(t).vals # <<>>
    /\ IsPanic(Top(t).vals[Len(Top(t).vals)])

\* thread t is about to dereference c: the next static of the initializer it
\* is inside, or any static from the code outside (main, a test, the bench)
Wants(t, c) ==
    IF Inside(t)
    THEN /\ ~Finished(t)
         /\ ~Panicking(t)
         /\ ~DepsRead(t)
         /\ c = Deps(Top(t).static)[Len(Top(t).vals) + 1]
    ELSE TRUE

\* the dereference of c returns v to thread t, whose stack is st; v is Panic
\* when the dereference panics, and the thread has then seen no value
Returns(t, st, c, v) ==
    /\ got' = IF IsPanic(v) THEN got
              ELSE [got EXCEPT ![t] = [static |-> c, value |-> v]]
    /\ stack' = [stack EXCEPT ![t] =
                    IF st = <<>> THEN st
                    ELSE [st EXCEPT ![Len(st)].vals = Append(@, v)]]

\* *STATIC where the Once is complete, or poisoned: the dereference panics
LazyRead(t, c) ==
    /\ mode = "secp256k1"
    /\ Wants(t, c)
    /\ once[c] \in {"complete", "poisoned"}
    /\ Returns(t, stack[t], c, IF once[c] = "complete" THEN cell[c] ELSE Panic)
    /\ UNCHANGED <<once, cell, runs>>
    /\ UNCHANGED <<mode, op, args, out>>
    /\ UNCHANGED <<fieldVars, curveVars>>

\* *STATIC where call_once lets the thread run the initializer
LazyEnter(t, c) ==
    /\ mode = "secp256k1"
    /\ Wants(t, c)
    /\ call_once_enters(once[c])
    /\ once' = [once EXCEPT ![c] = "running"]
    /\ runs' = [runs EXCEPT ![c] = @ + 1]
    /\ stack' = [stack EXCEPT ![t] = Append(@, [static |-> c, vals |-> <<>>, ret |-> Uninit])]
    /\ UNCHANGED <<cell, got>>
    /\ UNCHANGED <<mode, op, args, out>>
    /\ UNCHANGED <<fieldVars, curveVars>>

\* the innermost initializer of t ends inside call_once. It returns: the
\* value is stored and the Once completes, which lets the threads waiting on
\* it go on. Or a panic leaves it (its own, or that of a dereference it
\* made): its Once is poisoned. The thread itself is still inside Lazy::get.
LazyFinish(t) ==
    /\ mode = "secp256k1"
    /\ Inside(t)
    /\ ~Finished(t)
    /\ Panicking(t) \/ DepsRead(t)
    /\ LET c == Top(t).static
           v == IF Panicking(t) THEN Panic ELSE Initializer(c, Top(t).vals)
       IN  /\ cell' = IF IsPanic(v) THEN cell ELSE [cell EXCEPT ![c] = v]
           /\ once' = [once EXCEPT ![c] = IF IsPanic(v) THEN "poisoned" ELSE "complete"]
           /\ stack' = [stack EXCEPT ![t][Len(stack[t])].ret = v]
    /\ UNCHANGED <<runs, got>>
    /\ UNCHANGED <<mode, op, args, out>>
    /\ UNCHANGED <<fieldVars, curveVars>>

\* Lazy::get returns to the code that dereferenced the static: the
\* dereference gives the stored value, or panics in the caller, one
\* initializer per step
LazyReturn(t) ==
    /\ mode = "secp256k1"
    /\ Inside(t)
    /\ Finished(t)
    /\ Returns(t, SubSeq(stack[t], 1, Len(stack[t]) - 1), Top(t).static, Top(t).ret)
    /\ UNCHANGED <<once, cell, runs>>
    /\ UNCHANGED <<mode, op, args, out>>
    /\ UNCHANGED <<fieldVars, curveVars>>

NextSecp ==
    \/ \E t \in Threads, c \in Statics : LazyRead(t, c)
    \/ \E t \in Threads, c \in Statics : LazyEnter(t, c)
    \/ \E t \in Threads : LazyFinish(t)
    \/ \E t \in Threads : LazyReturn(t)

SpecSecp == InitSecp /\ [][NextSecp]_vars

----------------------------------------------------------------------------
(* The whole library *)

\* both curve implementations
InitCurves == InitGeneric \/ InitConst

NextCurves ==
    \/ \E x \in XCoords(curve), y \in YCoords(curve) : PointAt(x, y)
    \/ MkInfinity
    \/ Add
    \/ \E x \in XCoords(curve), y \in YCoords(curve) : EPointAt(x, y)
    \/ \E xy \in NewPoints : ENew(xy[1], xy[2])
    \/ EInfinity
    \/ EAdd
    \/ Copy
    \/ Feed

SpecCurves == InitCurves /\ [][NextCurves]_vars

Init == InitField \/ InitGeneric \/ InitConst \/ InitSecp

Next ==
    \/ NextField
    \/ NextCurves
    \/ \E d \in SameTypeCurves(curve) : NewCurve(d)
    \/ \E k \in 0..MaxScalar : ScalarMul(k)
    \/ NextSecp

Spec == Init /\ [][Next]_vars

----------------------------------------------------------------------------
(* Properties of the field arithmetic *)

\* base^e mod m by e successive multiplications
RECURSIVE PowMod(_, _, _)
PowMod(b, e, m) == IF e = 0 THEN 1 % m ELSE (b * PowMod(b, e - 1, m)) % m

InField(v, m) == ~IsPanic(v) /\ v.num \in 0..(m - 1)

\* C8: for every modulus m and elements a, b with residues in [0, m), a + b,
\* a - b and a * b are elements with residues in [0, m) equal to (a + b) mod m,
\* (a - b) mod m and (a * b) mod m; a - b with a < b wraps without the
\* intermediate a + m - b underflowing.
C8_FieldClosure ==
    mode = "field" /\ op \in {"add", "sub", "mul"} =>
        /\ InField(fself, modulus) /\ InField(fother, modulus)
        /\ InField(out, modulus)
        /\ op = "add" => out.num = (fself.num + fother.num) % modulus
        /\ op = "sub" => out.num = (fself.num - fother.num) % modulus
        /\ op = "mul" => out.num = (fself.num * fother.num) % modulus

\* a subtraction that wraps: a < b and the result is m - (b - a)
C8_Witness ==
    /\ mode = "field" /\ op = "sub"
    /\ fself.num < fother.num
    /\ out = Num(modulus - (fother.num - fself.num))

\* C9: for every prime modulus m, a in [0, m) and b in [1, m-1]:
\* b.exp(m-2) * b = 1, a / b = a * b.exp(m-2) and (a / b) * b = a;
\* modulo 19, 2 / 7 = 3.
C9_FermatDivision ==
    /\ FiniteField_div(Num(2), Num(7), 19) = Num(3)
    /\ mode = "field" /\ op = "div" /\ IsPrime(modulus) /\ fother.num # 0 =>
          LET inv == FiniteField_exp(fother, modulus - 2, modulus)
          IN  /\ InField(inv, modulus)
              /\ FiniteField_mul(inv, fother, modulus) = Num(1)
              /\ out = FiniteField_mul(fself, inv, modulus)
              /\ FiniteField_mul(out, fother, modulus) = fself

\* a division by an element other than 0 and 1 with a quotient other than 0
C9_Witness ==
    /\ mode = "field" /\ op = "div" /\ IsPrime(modulus)
    /\ fother.num > 1 /\ fself.num # 0
    /\ ~IsPanic(out) /\ out.num # 0 /\ out # fself

\* C10: for every modulus m >= 2, base in [0, m) and exponent e >= 0,
\* base.exp(e) has residue base^e mod m: 1 for e = 0 whatever the base, 0 for
\* base 0 and e > 0. The loop alone gives what the early returns give, and
\* it runs one iteration per bit of e.
C10_Exp ==
    /\ FiniteField_exp(Num(3), 3, 13) = Num(1)
    /\ FiniteField_exp(Num(3), 0, 13) = Num(1)
    /\ FiniteField_exp(Num(0), 0, 13) = Num(1)
    /\ FiniteField_exp(Num(0), 3, 13) = Num(0)
    /\ mode = "field" /\ modulus >= 2 /\ op = "exp" =>
          /\ out = Num(PowMod(fself.num, exponent, modulus))
          /\ exponent = 0 => out = Num(1)
          /\ fself.num = 0 /\ exponent > 0 => out = Num(0)
          /\ out = exp_main(fself, exponent, modulus)
          /\ iters > 0 => iters = BitLen(exponent)
          /\ iters = 0 => exponent = 0 \/ fself.num \in {0, 1}
    /\ mode = "field" /\ modulus >= 2 /\ pc = "loop" =>
          /\ iters + BitLen(exp) = BitLen(exponent)
          /\ (result * PowMod(base, exp, modulus)) % modulus
                = PowMod(fself.num, exponent, modulus)

\* an exp that ran the loop over an exponent of at least three bits, two set
C10_Witness ==
    /\ mode = "field" /\ op = "exp" /\ pc = "idle"
    /\ iters >= 3 /\ exponent % 2 = 1
    /\ fself.num > 1 /\ out.num > 1

\* the recoverable failure section 7 of the specification names: an error
\* value handed back to the caller, as opposed to a panic
InvalidResidue == [err |-> "InvalidResidue"]

\* C11: new(value) with value >= modulus fails with InvalidResidue, an
\* explicit recoverable failure handed to the caller, and produces no element;
\* with value < modulus it returns the element whose residue is value.
C11_NewInvalidResidue ==
    mode = "field" /\ op = "new" =>
        /\ args[1] >= modulus => out = InvalidResidue
        /\ args[1] < modulus => out = Num(args[1])

\* C11 amended: with value >= modulus the call panics on its assertion (the
\* caller gets no value and both operands stay as they were); with
\* value < modulus it returns the element whose residue is value.
C11_NewPanics ==
    mode = "field" /\ op = "new" =>
        /\ args[1] >= modulus => IsPanic(out)
        /\ args[1] < modulus => out = Num(args[1])
        /\ InField(fself, modulus) /\ InField(fother, modulus)

\* a rejected new(modulus) after both operands were built
C11_Witness ==
    /\ mode = "field" /\ op = "new"
    /\ args[1] = modulus /\ IsPanic(out)
    /\ fself.num > 0 /\ fother.num > 0

\* the dedicated failure sections 7 and 9 of the specification recommend
DivisionByZero == [err |-> "DivisionByZero"]

\* C16: for every modulus m and element a, a / 0 fails with a dedicated error
\* and returns no field element: never 0, never a. (Stated so that any call
\* that does not return counts as failing; the dedicated error is one such.)
C16_DivisionByZero ==
    mode = "field" /\ op = "div" /\ fother.num = 0 =>
        /\ out = DivisionByZero \/ IsPanic(out)
        /\ ~InField(out, modulus)

\* what a / 0 gives: a panic of the BigUint subtraction 1 - 2 for modulus 1,
\* a for modulus 2 (0.exp(0) is 1), and 0 for every larger modulus
C16_DivisionByZeroAsCoded ==
    mode = "field" /\ op = "div" /\ fother.num = 0 =>
        /\ modulus = 1 => IsPanic(out)
        /\ modulus = 2 => out = fself
        /\ modulus > 2 => out = Num(0)

----------------------------------------------------------------------------
(* Properties of point addition *)

\* curve membership of (x, y), computed over the integers
MemberRef(c, x, y) ==
    LET l == y.num * y.num
        r == x.num * x.num * x.num + c.a.num * x.num + c.b.num
    IN  IF c.kind = "i32" THEN l = r ELSE l % c.m = r % c.m

\* an ECPoint that point_at returns as on-curve for coordinates a caller passes
Accepted(v) ==
    /\ ~IsPanic(v)
    /\ v.p.tag = "Point"
    /\ v.p.x \in XCoords(v.curve) /\ v.p.y \in YCoords(v.curve)
    /\ MemberRef(v.curve, v.p.x, v.p.y)

\* an EPoint that point_at (ec.rs) returns for coordinates a caller passes
AcceptedE(c, v) ==
    /\ ~IsPanic(v)
    /\ v.p # None
    /\ v.p.v.x \in XCoords(c) /\ v.p.v.y \in YCoords(c)
    /\ MemberRef(c, v.p.v.x, v.p.v.y)

\* -y in the coordinate type
Neg(c, y) == T_sub(c, T_from_i32(c, 0), y)

curve223 == [id |-> 1, kind |-> "fp", m |-> 223, a |-> Num(0), b |-> Num(7)]
curve57 == [id |-> 1, kind |-> "i32", m |-> 0, a |-> Num(5), b |-> Num(7)]

\* C1: add(P, Q) == add(Q, P) for all points P, Q that point_at accepted on
\* the same curve, over a prime field and over i32, in both implementations.
C1_Commutative ==
    /\ mode = "generic" /\ op = "add" /\ Accepted(P) /\ Accepted(Q) =>
          ECPoint_eq(out, ECPoint_add(Q, P))
    /\ mode = "const" /\ op = "add" /\ AcceptedE(curve, P) /\ AcceptedE(curve, Q) =>
          out = EPoint_add(curve, Q, P)

\* C1 over prime fields only, where it holds
C1_CommutativeOverFields ==
    mode = "generic" /\ curve.kind = "fp" /\ op = "add" /\ Accepted(P) /\ Accepted(Q) =>
        ECPoint_eq(out, ECPoint_add(Q, P))

\* C2: Infinity is a two-sided identity: add(P, Infinity) == P and
\* add(Infinity, P) == P for P of any variant (Affine, Infinity, Invalid).
C2_Identity ==
    /\ mode = "generic" /\ op = "add" =>
          /\ Q.p = Infinity => ECPoint_eq(out, P)
          /\ P.p = Infinity => ECPoint_eq(out, Q)
    /\ mode = "const" /\ op = "add" =>
          /\ EPoint_is_infinity(Q) => out = P
          /\ EPoint_is_infinity(P) => out = Q

\* Infinity added to an affine point, on the left
C2_Witness ==
    /\ mode = "generic" /\ op = "add"
    /\ P.p = Infinity /\ Q.p.tag = "Point"
    /\ out = Q

\* C3: for every on-curve P = (x, y) and Q = (x, -y), add(P, Q) and add(Q, P)
\* are Infinity; for y = 0, Q = P and the doubling returns Infinity without
\* computing a slope.
InversePair ==
    mode = "generic" /\ op = "add" /\ Accepted(P) /\ Q.p = Point(P.p.x, Neg(curve, P.p.y))

InversePairE ==
    mode = "const" /\ op = "add" /\ AcceptedE(curve, P)
        /\ Q = EPoint_new(P.p.v.x, Neg(curve, P.p.v.y))

C3_Inverse ==
    /\ InversePair =>
          /\ ECPoint_eq(out, ECurve_infinity(curve))
          /\ ECPoint_eq(ECPoint_add(Q, P), ECurve_infinity(curve))
          /\ P.p.y = T_from_i32(curve, 0) =>
                Q = P /\ "ret" \in DOMAIN add_slope(curve, P.p, Q.p)
    /\ InversePairE =>
          /\ out = EPoint_infinity
          /\ EPoint_add(curve, Q, P) = EPoint_infinity

\* the doubling of an on-curve point with y = 0
C3_Witness ==
    /\ mode = "generic" /\ op = "add" /\ Accepted(P)
    /\ P.p.y = T_from_i32(curve, 0) /\ Q = P
    /\ out.p = Infinity

\* the exact slopes of the chord (or tangent) through p and q: the values s
\* of the coordinate type with s * den = num
RefSlopes(c, p, q) ==
    LET num == IF p = q THEN 3 * p.x.num * p.x.num + c.a.num ELSE q.y.num - p.y.num
        den == IF p = q THEN 2 * p.y.num ELSE q.x.num - p.x.num
    IN  IF c.kind = "i32"
        THEN {s \in (-Abs(num))..Abs(num) : s * den = num}
        ELSE {s \in 0..(c.m - 1) : (s * den) % c.m = num % c.m}

\* x' = s^2 - p.x - q.x and y' = s * (p.x - x') - p.y
RefSum(c, p, q, s) ==
    LET x == s * s - p.x.num - q.x.num
        y == s * (p.x.num - x) - p.y.num
    IN  IF c.kind = "i32" THEN Coordinates(Num(x), Num(y))
        ELSE Coordinates(Num(x % c.m), Num(y % c.m))

\* p and q are not additive inverses of each other
NotInverses(p, q) == ~(p.x = q.x /\ (p.y # q.y \/ p.y.num = 0))

ChordPair ==
    mode = "generic" /\ op = "add" /\ Accepted(P) /\ Accepted(Q) /\ NotInverses(P.p, Q.p)

ChordPairE ==
    mode = "const" /\ op = "add" /\ AcceptedE(curve, P) /\ AcceptedE(curve, Q)
        /\ NotInverses(P.p.v, Q.p.v)

\* C4: for on-curve affine P, Q that are not additive inverses, add(P, Q) is
\* Affine(x', y') with x' = s^2 - P.x - Q.x, y' = s (P.x - x') - P.y, where s
\* is the slope of the chord, or of the tangent when P == Q; in particular
\* (192,105) + (17,56) = (170,142) mod 223 and (-1,-1) doubled = (18,77)
\* over the integers with a = 5.
C4_ChordTangent ==
    /\ ECPoint_add(ECurve_point_at(curve223, Num(192), Num(105)),
                   ECurve_point_at(curve223, Num(17), Num(56)))
          = ECPoint(curve223, Point(Num(170), Num(142)))
    /\ ECPoint_add(ECurve_point_at(curve57, Num(-1), Num(-1)),
                   ECurve_point_at(curve57, Num(-1), Num(-1)))
          = ECPoint(curve57, Point(Num(18), Num(77)))
    /\ ChordPair =>
          /\ ~IsPanic(out)
          /\ out.p.tag = "Point"
          /\ \E s \in RefSlopes(curve, P.p, Q.p) :
                Coordinates(out.p.x, out.p.y) = RefSum(curve, P.p, Q.p, s)
    /\ ChordPairE =>
          /\ ~IsPanic(out)
          /\ out.p # None
          /\ \E s \in RefSlopes(curve, P.p.v, Q.p.v) :
                out.p.v = RefSum(curve, P.p.v, Q.p.v, s)

\* C4 over prime fields only, where it holds
C4_ChordTangentOverFields ==
    ChordPair /\ curve.kind = "fp" =>
        /\ ~IsPanic(out)
        /\ out.p.tag = "Point"
        /\ \E s \in RefSlopes(curve, P.p, Q.p) :
              Coordinates(out.p.x, out.p.y) = RefSum(curve, P.p, Q.p, s)

\* the points a caller can build on c: Infinity and every accepted (x, y)
ValidPoints(c) ==
    {ECurve_infinity(c)} \cup
    {v \in {ECurve_point_at(c, x, y) : x \in XCoords(c), y \in YCoords(c)} :
        v.p.tag = "Point"}

IsValid(v) == ~IsPanic(v) /\ (v.p = Infinity \/ Accepted(v))

\* the discriminant 4 a^3 + 27 b^2 is not zero in the field
Nonsingular(c) ==
    (4 * c.a.num * c.a.num * c.a.num + 27 * c.b.num * c.b.num) % c.m # 0

\* a sum of two valid points over a prime field
FieldSum ==
    mode = "generic" /\ curve.kind = "fp" /\ op = "add" /\ IsValid(P) /\ IsValid(Q)

C6_PointAt ==
    /\ mode = "generic" /\ op = "point_at" =>
          LET x == args[1]
              y == args[2]
          IN  /\ ~IsPanic(out)
              /\ MemberRef(curve, x, y) => out = ECPoint(curve, Point(x, y))
              /\ ~MemberRef(curve, x, y) => out = ECPoint(curve, Invalid)
              /\ ECurve_contains(curve, x, y) <=> MemberRef(curve, x, y)
    /\ mode = "const" /\ op = "point_at" =>
          LET x == args[1]
              y == args[2]
          IN  /\ ~IsPanic(out)
              /\ MemberRef(curve, x, y) => out = Some(EPoint_new(x, y))
              /\ ~MemberRef(curve, x, y) => out = None
              /\ EC_contains(curve, x, y) <=> MemberRef(curve, x, y)

\* a point_at over a prime field that returned an affine point with y # 0
C6_Witness ==
    /\ mode = "generic" /\ curve.kind = "fp" /\ op = "point_at"
    /\ out.p.tag = "Point" /\ out.p.y.num # 0 /\ out.p.x.num # 0
    /\ Q = out /\ P.p = Invalid

\* C7: on one curve, add(P, Q) is Invalid if and only if P or Q is Invalid,
\* also when the other operand is Infinity.
C7_InvalidPropagates ==
    mode = "generic" /\ op = "add" =>
        (~IsPanic(out) /\ out.p = Invalid) <=> (P.p = Invalid \/ Q.p = Invalid)

\* an affine point added to Invalid
C7_Witness ==
    /\ mode = "generic" /\ op = "add"
    /\ P.p.tag = "Point" /\ Q.p = Invalid
    /\ out.p = Invalid

\* the curves of the two operands have the same parameters (a, b)
SameParameters == P.curve.a = Q.curve.a /\ P.curve.b = Q.curve.b

\* C12: add of two points whose curves differ in (a, b) aborts, whatever the
\* variants of the operands (before the identity, Invalid and slope cases), and
\* returns no point; two points on distinct curve objects with equal (a, b)
\* are added as points of one curve.
C12_CurveMismatch ==
    mode = "generic" /\ op = "add" =>
        /\ ~SameParameters => IsPanic(out)
        /\ SameParameters =>
              /\ ~IsPanic(out)
              /\ out = ECPoint_add([P EXCEPT !.curve = Q.curve], Q)
                    \/ out = ECPoint_add(P, [Q EXCEPT !.curve = P.curve])

\* Infinity added to a point of a curve with another a: the identity arm
\* would have returned the point
C12_Witness ==
    /\ mode = "generic" /\ op = "add"
    /\ P.p = Infinity /\ Q.p.tag = "Point"
    /\ P.curve.a # Q.curve.a
    /\ IsPanic(out)

\* two affine points on distinct curve objects with equal (a, b), added
C12_Accepted ==
    /\ mode = "generic" /\ op = "add"
    /\ P.p.tag = "Point" /\ Q.p.tag = "Point"
    /\ P.curve.id # Q.curve.id /\ SameParameters
    /\ out.p.tag = "Point"

----------------------------------------------------------------------------
(* Properties of the secp256k1 statics *)

\* the curve y^2 = x^3 + 7 over the field of SECP256K1_PRIME
curve_secp256k1 ==
    [id |-> 1, kind |-> "fp256", m |-> SECP256K1_PRIME_value,
     a |-> Num(<<>>), b |-> Num(<<7>>)]

\* the value of each static, written out: the literals, the curve, and the
\* generator as the on-curve point (GX, GY) that test_gen expects
ExpectedValue(c) ==
    CASE c = "SECP256K1_PRIME" -> Num(SECP256K1_PRIME_value)
      [] c = "SECP256K1_GX" -> Num(SECP256K1_GX_value)
      [] c = "SECP256K1_GY" -> Num(SECP256K1_GY_value)
      [] c = "SECP256K1_G" ->
            ECPoint(curve_secp256k1,
                    Point(Num(SECP256K1_GX_value), Num(SECP256K1_GY_value)))
      [] c = "SECP256K1_N" -> Num(SECP256K1_N_value)
      [] c = "SECP256K1" -> curve_secp256k1

\* what holds of the statics in every state
InitOnceInvariant ==
    mode = "secp256k1" =>
        /\ \A c \in Statics :
              /\ runs[c] <= 1
              /\ once[c] \in {"incomplete", "running", "complete"}
              /\ once[c] = "complete" => cell[c] = ExpectedValue(c)
              /\ once[c] # "complete" => cell[c] = Uninit
              /\ once[c] = "incomplete" <=> runs[c] = 0
        /\ \A t \in Threads :
              /\ got[t] # NoRead => got[t].value = ExpectedValue(got[t].static)
              /\ \A i \in 1..Len(stack[t]) : \A j \in 1..Len(stack[t][i].vals) :
                    stack[t][i].vals[j] = ExpectedValue(Deps(stack[t][i].static)[j])

\* a stored value stays
StoredValueStays ==
    \A c \in Statics : cell[c] # Uninit => cell'[c] = cell[c]

\* C13: with any number of threads racing on the first access, the
\* initializer of each static (prime, Gx, Gy, G, N, curve) runs at most once,
\* every value a thread sees is the initialized one, the same for all threads,
\* and a stored value never changes.
C13_InitOnce == []InitOnceInvariant /\ [][StoredValueStays]_vars

\* a thread inside the initializer of G waits for SECP256K1_GX while another
\* thread runs the initializer of SECP256K1_GX
C13_Witness ==
    /\ mode = "secp256k1"
    /\ once["SECP256K1_GX"] = "running"
    /\ \E t \in Threads, u \in Threads :
          /\ t # u
          /\ Inside(t) /\ Top(t).static = "SECP256K1_G"
          /\ Wants(t, "SECP256K1_GX")
          /\ Inside(u) /\ stack[u][1].static = "SECP256K1_GX"

----------------------------------------------------------------------------
(* Properties of scalar multiplication *)

\* p added to itself k times, starting from Infinity
RECURSIVE RepeatedAdd(_, _)
RepeatedAdd(p, k) ==
    IF k = 0 THEN ECurve_infinity(p.curve) ELSE ECPoint_add(RepeatedAdd(p, k - 1), p)

\* on the small prime fields of the scalar machine, double-and-add gives the
\* point that k successive additions give, and Infinity for k = 0. The
\* product of SECP256K1_G and SECP256K1_N that test_prime_field_order and
\* big_mult compute is some 450 point additions over the 256-bit field, each
\* with a division of about 500 multiplications on digits: it is not
\* evaluated, and nothing here says what it is.
ScalarMultiplyIsRepeatedAdd ==
    mode = "generic" /\ curve.kind = "fp" /\ op = "mul" /\ IsValid(P) =>
        /\ ECPoint_eq(out, RepeatedAdd(P, args[1]))
        /\ args[1] = 0 => out.p = Infinity

\* an affine point multiplied by its order, a scalar of three bits or more,
\* whose smaller multiples are affine
ScalarMultiplyByOrder ==
    /\ mode = "generic" /\ curve.kind = "fp" /\ op = "mul"
    /\ Accepted(P) /\ args[1] >= 5
    /\ out.p = Infinity
    /\ \A j \in 1..(args[1] - 1) : scalar_multiply(P, j).p.tag = "Point"

----------------------------------------------------------------------------
(* Closure of the group law *)

\* an ECPoint in the Point variant satisfies the equation of its curve
OnCurve(v) ==
    v.p.tag = "Point" =>
        ~contains_panics(v.curve, v.p.x, v.p.y) /\ ECurve_contains(v.curve, v.p.x, v.p.y)

\* an EPoint with coordinates satisfies the equation of the curve <A, B>
OnCurveE(c, v) ==
    v.p # None =>
        ~EC_contains_panics(c, v.p.v.x, v.p.v.y) /\ EC_contains(c, v.p.v.x, v.p.v.y)

\* C15: starting from the points point_at and infinity return on one curve,
\* after any sequence of adds every point in the Affine variant satisfies
\* y*y == x*x*x + a*x + b in its coordinate type: the operands a caller holds
\* and every sum, over prime fields and over i32, in both implementations.
\* In ec.rs a caller can also bind any (x, y) with EPoint::new, so there the
\* same is stated step by step: point_at returns points of the curve, and
\* the sum of operands of the curve is a point of the curve.
C15_Closure ==
    /\ mode = "generic" =>
          /\ OnCurve(P) /\ OnCurve(Q)
          /\ op = "add" => ~IsPanic(out) /\ OnCurve(out)
    /\ mode = "const" =>
          /\ op = "point_at" /\ ~IsPanic(out) /\ out # None => OnCurveE(curve, out.v)
          /\ op = "add" /\ OnCurveE(curve, P) /\ OnCurveE(curve, Q) =>
                ~IsPanic(out) /\ OnCurveE(curve, out)

\* C15 over prime fields only, where it holds
C15_ClosureOverFields ==
    mode = "generic" /\ curve.kind = "fp" =>
        /\ OnCurve(P) /\ OnCurve(Q)
        /\ op = "add" => ~IsPanic(out) /\ OnCurve(out)

====
